---- MODULE Spec2Model ----
(***************************************************************************)
(* ArchaeologyWala: the content store, the search index and the editorial *)
(* submission workflow of the single-file site.                           *)
(*                                                                         *)
(* Text that the code inspects character by character (titles, bodies,     *)
(* slugs, queries) is a sequence of one-character strings; text that the   *)
(* code only tests for emptiness or equality (name, email, token) is a     *)
(* plain string.                                                           *)
(***************************************************************************)
EXTENDS Integers, Sequences, FiniteSets, TLC

\* ------------------------------------------------------------------ bounds
MaxTime == 1       \* Date.now() ranges over 0..MaxTime
MaxSubmits == 2    \* submissions accepted in one session
MaxBookmarks == 2  \* slugs bookmarked at once
MaxLikes == 2      \* claps per slug
MaxComments == 2   \* comments per post
MaxTitleLen == 2   \* characters of the titles drawn exhaustively

\* ------------------------------------------------------------- characters
UpperSeq == <<"A","B","C","D","E","F","G","H","I","J","K","L","M","N","O","P","Q","R","S","T","U","V","W","X","Y","Z">>
LowerSeq == <<"a","b","c","d","e","f","g","h","i","j","k","l","m","n","o","p","q","r","s","t","u","v","w","x","y","z">>
DigitSeq == <<"0","1","2","3","4","5","6","7","8","9">>

Range(f) == { f[i] : i \in DOMAIN f }

\* String.prototype.toLowerCase, one character
LowerChar(c) ==
  IF \E i \in DOMAIN UpperSeq : UpperSeq[i] = c
    THEN LowerSeq[CHOOSE i \in DOMAIN UpperSeq : UpperSeq[i] = c]
    ELSE c

\* the regular expression class \s
IsSpace(c) == c \in {" ", "\n", "\t"}

\* the complement of the class [^a-z0-9\s-]
IsSlugChar(c) == c \in Range(LowerSeq) \cup Range(DigitSeq) \cup {"-"} \/ IsSpace(c)

ToLowerCase(str) == [i \in DOMAIN str |-> LowerChar(str[i])]

\* String.prototype.trim
RECURSIVE TrimStart(_)
TrimStart(str) ==
  IF str # <<>> /\ IsSpace(Head(str)) THEN TrimStart(Tail(str)) ELSE str

RECURSIVE TrimEnd(_)
TrimEnd(str) ==
  IF str # <<>> /\ IsSpace(str[Len(str)])
    THEN TrimEnd(SubSeq(str, 1, Len(str) - 1))
    ELSE str

Trim(str) == TrimEnd(TrimStart(str))

\* .replace(/\s+/g, "-"): every maximal run of whitespace becomes one hyphen
RECURSIVE HyphenateRuns(_)
HyphenateRuns(str) ==
  IF str = <<>> THEN <<>>
  ELSE IF IsSpace(Head(str))
    THEN <<"-">> \o HyphenateRuns(TrimStart(str))
    ELSE <<Head(str)>> \o HyphenateRuns(Tail(str))

slugify(str) == HyphenateRuns(Trim(SelectSeq(ToLowerCase(str), IsSlugChar)))

\* decimal digits of a non-negative integer, as String(n) prints them
RECURSIVE Digits(_)
Digits(n) ==
  IF n < 10 THEN <<DigitSeq[n + 1]>> ELSE Digits(n \div 10) \o <<DigitSeq[(n % 10) + 1]>>

\* the positions where a match of /\s+/ starts: a white-space character that
\* no white-space character precedes
RunStarts(md) ==
  { i \in DOMAIN md : IsSpace(md[i]) /\ (i = 1 \/ ~IsSpace(md[i - 1])) }

\* md.split(/\s+/).length: split cuts at every match, so it returns one piece
\* more than there are matches, the empty piece before a leading match and
\* after a trailing one included
SplitCount(md) == Cardinality(RunStarts(md)) + 1

WordsPerMinute == 220
MinMinutes == 3

\* Math.round(n / d) for non-negative n
RoundDiv(n, d) == (2 * n + d) \div (2 * d)

Max(a, b) == IF a >= b THEN a ELSE b

\* a variant that rounds down, against which the rounding is checked
estimateMinutesFloor(md) == Max(MinMinutes, SplitCount(md) \div WordsPerMinute)

estimateMinutes(md) == Max(MinMinutes, RoundDiv(SplitCount(md), WordsPerMinute))

\* ------------------------------------------------------ document processor
\* str.split(/\n/)
RECURSIVE SplitLines(_)
SplitLines(str) ==
  IF \E i \in DOMAIN str : str[i] = "\n"
    THEN LET i == CHOOSE j \in DOMAIN str : str[j] = "\n" /\ \A h \in 1..(j - 1) : str[h] # "\n"
         IN <<SubSeq(str, 1, i - 1)>> \o SplitLines(SubSeq(str, i + 1, Len(str)))
    ELSE <<str>>

\* the length of the longest prefix of str made of characters of the set cs
RECURSIVE PrefixLen(_, _)
PrefixLen(str, cs) ==
  IF str # <<>> /\ Head(str) \in cs THEN 1 + PrefixLen(Tail(str), cs) ELSE 0

Spaces == {" ", "\n", "\t"}

MaxHeadingLevel == 6

\* /^(#{1,6})\s+(.+)$/.exec(line): <<>> when the line does not match, else
\* <<m>> with the two groups.  The markers are the whole leading run of "#",
\* at most six; the white space after them is taken whole unless nothing
\* follows it, and then its last character is the text.
HeadingMatch(line) ==
  LET hashes == PrefixLen(line, {"#"})
      rest == SubSeq(line, hashes + 1, Len(line))
      blanks == PrefixLen(rest, Spaces)
      after == SubSeq(rest, blanks + 1, Len(rest))
  IN IF hashes < 1 \/ hashes > MaxHeadingLevel \/ blanks < 1 THEN <<>>
     ELSE IF after # <<>> THEN <<[marks |-> hashes, rest |-> after]>>
     ELSE IF blanks >= 2 THEN <<[marks |-> hashes, rest |-> <<rest[blanks]>>]>>
     ELSE <<>>

\* the grave accent U+0060, which a string of this module cannot hold, under
\* its name
Backtick == "grave"

\* m[2].replace(/`/g, '')
StripBackticks(str) ==
  LET NotTick(c) == c # Backtick
  IN SelectSeq(str, NotTick)

StripEmphasis(str) ==
  LET NotMark(c) == c \notin {Backtick, "*", "_"}
  IN SelectSeq(str, NotMark)

\* the entry that the outline effect pushes for a matching line
TocItem(m) ==
  [level |-> m.marks, text |-> StripBackticks(m.rest), id |-> slugify(StripBackticks(m.rest))]

\* the outline effect of ArticleView: one pass over the lines of the body
RECURSIVE TocOfLines(_)
TocOfLines(lines) ==
  IF lines = <<>> THEN <<>>
  ELSE LET m == HeadingMatch(Head(lines))
       IN (IF m = <<>> THEN <<>> ELSE <<TocItem(m[1])>>) \o TocOfLines(Tail(lines))

Toc(body) == TocOfLines(SplitLines(body))

\* the glossary, as its entries
TermTypological == <<"t","y","p","o","l","o","g","i","c","a","l">>
TermSherds == <<"s","h","e","r","d","s">>
TermChronology == <<"c","h","r","o","n","o","l","o","g","y">>
glossary ==
  { [term |-> TermTypological, definition |-> "Classification of artifacts based on shared attributes."],
    [term |-> TermSherds, definition |-> "Broken pieces of ceramic material found at sites."],
    [term |-> TermChronology, definition |-> "The dating and sequencing of past events and materials."] }

\* glossary[key] for the keys of the glossary itself, "" for undefined
glossaryAt(key) ==
  IF \E e \in glossary : e.term = key
    THEN (CHOOSE e \in glossary : e.term = key).definition
    ELSE ""

\* the alternatives of /(typological|sherds|chronologies?)/gi in the order
\* the expression tries them, the optional s taken first
PatternWords ==
  << TermTypological, TermSherds,
     <<"c","h","r","o","n","o","l","o","g","i","e","s">>,
     <<"c","h","r","o","n","o","l","o","g","i","e">> >>

\* the alternatives that match at position i, letter case ignored
MatchesAt(str, i) ==
  { k \in DOMAIN PatternWords :
      /\ i + Len(PatternWords[k]) - 1 <= Len(str)
      /\ ToLowerCase(SubSeq(str, i, i + Len(PatternWords[k]) - 1)) = PatternWords[k] }

\* text.split(/(typological|sherds|chronologies?)/gi): the pieces between
\* the matches with the matches themselves, in order
RECURSIVE SplitOnTerms(_)
SplitOnTerms(str) ==
  LET starts == { i \in DOMAIN str : MatchesAt(str, i) # {} }
  IN IF starts = {} THEN <<str>>
     ELSE LET i == CHOOSE j \in starts : \A h \in starts : j <= h
              k == CHOOSE a \in MatchesAt(str, i) : \A b \in MatchesAt(str, i) : a <= b
              n == Len(PatternWords[k])
          IN <<SubSeq(str, 1, i - 1), SubSeq(str, i, i + n - 1)>>
               \o SplitOnTerms(SubSeq(str, i + n, Len(str)))

\* part.toLowerCase().replace(/s$/, '')
glossaryKey(part) ==
  LET low == ToLowerCase(part)
  IN IF low # <<>> /\ low[Len(low)] = "s" THEN SubSeq(low, 1, Len(low) - 1) ELSE low

\* the text hook: every piece, with the tooltip of the pieces that get one
Annotate(str) ==
  LET parts == SplitOnTerms(str)
  IN [i \in DOMAIN parts |-> [part |-> parts[i], title |-> glossaryAt(glossaryKey(parts[i]))]]

\* The text nodes that the markdown renderer hands to the text hook: one per
\* line that is not empty, the markers of a heading line left out.
TextNodes(body) ==
  LET lines == SplitLines(body)
      NotEmpty(l) == l # <<>>
      TextOf(l) == IF HeadingMatch(l) = <<>> THEN l ELSE HeadingMatch(l)[1].rest
  IN SelectSeq([i \in DOMAIN lines |-> TextOf(lines[i])], NotEmpty)

\* {post.minutes || estimateMinutes(post.body)}; a Post without minutes has 0
MinutesShown(post) ==
  IF post.minutes # 0 THEN post.minutes ELSE estimateMinutes(post.body)

\* The children that the markdown renderer hands to a heading hook for the
\* text of a heading: the runs of plain text as strings, and one element for
\* every span of emphasis or code, which is a pair of equal markers with
\* something between them.  A child is <<"text", run>> or <<"element">>.
SpanMarkers == {Backtick, "*", "_"}

\* the position that closes the span opened at the head of str, 0 for none
SpanEnd(str) ==
  IF str = <<>> \/ Head(str) \notin SpanMarkers THEN 0
  ELSE LET ends == { j \in 3..Len(str) : str[j] = Head(str) }
       IN IF ends = {} THEN 0 ELSE CHOOSE j \in ends : \A h \in ends : j <= h

RECURSIVE HeadingChildren(_)
HeadingChildren(str) ==
  IF str = <<>> THEN <<>>
  ELSE IF SpanEnd(str) > 0
    THEN << <<"element">> >> \o HeadingChildren(SubSeq(str, SpanEnd(str) + 1, Len(str)))
  ELSE LET rest == HeadingChildren(Tail(str))
       IN IF rest # <<>> /\ rest[1][1] = "text"
            THEN << <<"text", <<Head(str)>> \o rest[1][2]>> >> \o Tail(rest)
            ELSE << <<"text", <<Head(str)>> >> >> \o rest

ObjectObject == <<"[","o","b","j","e","c","t"," ","O","b","j","e","c","t","]">>

\* String(props.children): the children joined by commas, a string child as
\* it is and an element child as "[object Object]"
RECURSIVE StringOfChildren(_)
StringOfChildren(children) ==
  IF children = <<>> THEN <<>>
  ELSE LET one == IF children[1][1] = "text" THEN children[1][2] ELSE ObjectObject
       IN IF Len(children) = 1 THEN one
          ELSE one \o <<",">> \o StringOfChildren(Tail(children))

\* the levels whose heading hook sets an id: h1, h2 and h3
MaxAnchoredLevel == 3

\* the heading element rendered for a heading of the body: anchor is <<id>>
\* when the element carries an id attribute and <<>> when it carries none
HeadingElement(level, str) ==
  [ level |-> level,
    anchor |-> IF level <= MaxAnchoredLevel
                 THEN <<slugify(StringOfChildren(HeadingChildren(str)))>>
                 ELSE <<>> ]

\* the heading elements of the article, one per heading line of the body
RECURSIVE HeadingsOfLines(_)
HeadingsOfLines(lines) ==
  IF lines = <<>> THEN <<>>
  ELSE LET m == HeadingMatch(Head(lines))
       IN (IF m = <<>> THEN <<>> ELSE <<HeadingElement(m[1].marks, m[1].rest)>>)
            \o HeadingsOfLines(Tail(lines))

\* what ArticleView renders of a post: the reading time, the heading
\* elements and the prose
RenderArticle(post) ==
  [ minutes |-> MinutesShown(post),
    headings |-> HeadingsOfLines(SplitLines(post.body)),
    prose |-> LET nodes == TextNodes(post.body)
              IN [i \in DOMAIN nodes |-> Annotate(nodes[i])] ]

NotShown == [minutes |-> 0, headings |-> <<>>, prose |-> <<>>]

\* ------------------------------------------------------------ seed corpus
\* samplePosts.  Each body is cut to its first line (the level-1 heading);
\* slugs, titles, tags and minutes are the ones of the source.
SeedPottery ==
  [ slug |-> <<"p","o","t","t","e","r","y","-","t","h","r","o","u","g","h","-","a","g","e","s">>,
    title |-> <<"P","o","t","t","e","r","y"," ","T","h","r","o","u","g","h"," ","t","h","e"," ","A","g","e","s",":"," ","F","r","o","m"," ","N","e","o","l","i","t","h","i","c"," ","t","o"," ","C","l","a","s","s","i","c","a","l">>,
    author |-> "Pryank Wadhera",
    date |-> 20321,
    hero |-> "https://images.unsplash.com/photo-1545239351-1141bd82e8a6?q=80&w=1400&auto=format&fit=crop",
    tags |-> << <<"m","a","t","e","r","i","a","l"," ","c","u","l","t","u","r","e">>, <<"c","e","r","a","m","i","c","s">>, <<"f","i","e","l","d"," ","m","e","t","h","o","d","s">> >>,
    minutes |-> 9,
    body |-> <<"#"," ","P","o","t","t","e","r","y"," ","T","h","r","o","u","g","h"," ","t","h","e"," ","A","g","e","s">> ]

SeedFieldKit ==
  [ slug |-> <<"a","r","c","h","a","e","o","l","o","g","y","-","1","0","1","-","f","i","e","l","d","-","k","i","t">>,
    title |-> <<"A","r","c","h","a","e","o","l","o","g","y"," ","1","0","1",":"," ","B","u","i","l","d","i","n","g"," ","a"," ","F","i","e","l","d"," ","K","i","t">>,
    author |-> "Pryank Wadhera",
    date |-> 20279,
    hero |-> "https://images.unsplash.com/photo-1519120944692-1f7e6e7fbd3d?q=80&w=1400&auto=format&fit=crop",
    tags |-> << <<"f","i","e","l","d"," ","m","e","t","h","o","d","s">>, <<"h","o","w","-","t","o">>, <<"g","e","a","r">> >>,
    minutes |-> 6,
    body |-> <<"#"," ","A","r","c","h","a","e","o","l","o","g","y"," ","1","0","1",":"," ","B","u","i","l","d","i","n","g"," ","a"," ","F","i","e","l","d"," ","K","i","t">> ]

SeedDigital ==
  [ slug |-> <<"d","i","g","i","t","a","l","-","a","r","c","h","a","e","o","l","o","g","y">>,
    title |-> <<"D","i","g","i","t","a","l"," ","A","r","c","h","a","e","o","l","o","g","y",":"," ","D","r","o","n","e","s",","," ","P","h","o","t","o","g","r","a","m","m","e","t","r","y",","," ","a","n","d"," ","3","D">>,
    author |-> "Pryank Wadhera",
    date |-> 20253,
    hero |-> "https://images.unsplash.com/photo-1500530855697-b586d89ba3ee?q=80&w=1400&auto=format&fit=crop",
    tags |-> << <<"t","e","c","h","n","o","l","o","g","y">>, <<"s","u","r","v","e","y">>, <<"3","D">> >>,
    minutes |-> 8,
    body |-> <<"#"," ","D","i","g","i","t","a","l"," ","A","r","c","h","a","e","o","l","o","g","y",":"," ","D","r","o","n","e","s",","," ","P","h","o","t","o","g","r","a","m","m","e","t","r","y",","," ","a","n","d"," ","3","D">> ]

samplePosts == <<SeedPottery, SeedFieldKit, SeedDigital>>

\* ----------------------------------------------------------------- inputs
\* titles a contributor may type: one without any letter or digit, and one
\* that reads like the slug of a seed post
TitleBang == <<"!","!">>
TitleDigital == <<"D","i","g","i","t","a","l"," ","A","r","c","h","a","e","o","l","o","g","y">>
Titles == {TitleBang, TitleDigital}

BodyText == <<"O","l","d"," ","p","o","t","s">>

QueryDig == <<"d","i","g">>
QueryNone == <<"z","z">>
Queries == {<<>>, QueryDig, QueryNone}

Tokens == {"", "archadmin", "guest"}

Pages == {"home", "blog", "article", "learn", "library", "contribute", "about"}

\* every string over an alphabet up to a length
BoundedStrings(alphabet, n) == UNION { [1..k -> alphabet] : k \in 0..n }

\* Titles waiting for approval: every short title over letters of both
\* cases, a digit, two kinds of white space, the hyphen and a punctuation
\* mark, and three longer ones.
TitleAlphabet == {"a", "B", "1", " ", "\t", "-", "!"}
TitlePottery101 == <<"P","o","t","t","e","r","y"," ","1","0","1","!">>
TitleBangs == <<"!","!","!">>
TitleSpaced == <<" ","A"," ","\t","b"," ">>
DrawnTitles ==
  (BoundedStrings(TitleAlphabet, MaxTitleLen) \ {<<>>})
    \cup {TitlePottery101, TitleBangs, TitleSpaced}

\* a clock value of ten digits, and the first instant of the model's clock
LongId == 1762300800
SubmissionIds == {0, LongId}

\* what a reader can type into the comment box: blanks only, or a text with
\* blanks around it
Blank == <<" ">>
NameAsha == <<"A","s","h","a"," ">>
TextNice == <<" ","N","i","c","e">>
CommentNames == {Blank, NameAsha}
CommentTexts == {Blank, TextNice}

\* what the user can type into each field of the contribution form
FormInputs ==
  [ name |-> {"", "Asha"},
    email |-> {"", "asha@example.org"},
    affiliation |-> {""},
    title |-> {<<>>} \cup Titles,
    tags |-> {<<>>},
    cover |-> {""},
    summary |-> {""},
    body |-> {<<>>, BodyText},
    agree |-> BOOLEAN ]

\* -------------------------------------------------------------- variables
VARIABLES
  posts,        \* ArchaeologyWalaApp: the corpus, newest first
  bookmarks,    \* ArchaeologyWalaApp: bookmarked slugs
  likes,        \* ArchaeologyWalaApp: slug -> claps
  submissions,  \* ArchaeologyWalaApp: pending submissions, newest first
  query,        \* ArchaeologyWalaApp: the search box
  fuse,         \* useMemo: the fuzzy index
  filtered,     \* useMemo: the posts handed to the blog listing
  page,         \* ArchaeologyWalaApp: the section shown
  activePost,   \* ArchaeologyWalaApp: <<>> (null) or <<post>>
  form,         \* Contribute: the draft
  token,        \* Contribute: the review credential typed or loaded
  now,          \* the wall clock read by Date.now()
  ls,           \* localStorage: the keys of the application and of Contribute
  lsComments,   \* localStorage: the keys aw:comments:<slug>, by slug
  storage,      \* the condition of localStorage: "ok", "full" (writes throw)
                \* or "denied" (reads and writes throw)
  toc,          \* ArticleView: the heading outline of the post shown
  shown,        \* ArticleView: what is rendered of the post shown
  items,        \* Comments: the comments of the post shown, newest first
  name,         \* Comments: the name typed
  text,         \* Comments: the comment typed
  submitted,    \* the number of submissions this session has accepted
  resolved,     \* the ids of the submissions that approve or reject has removed
  toggled,      \* the run of consecutive toggleBookmark calls, at most the last
                \* two: the slug of each and the bookmarks it started from
  last          \* the store operation that ran last, with its argument and its
                \* prompt; "ui" once a later handler only touched the interface

vars == <<posts, bookmarks, likes, submissions, query, fuse, filtered, page,
          activePost, form, token, now, ls, lsComments, storage, toc, shown, items,
          name, text, submitted, resolved, toggled, last>>

\* ------------------------------------------------------------ persistence
StorageKeys == {"aw:posts", "aw:bookmarks", "aw:likes", "aw:submissions", "aw:reviewToken"}

\* What localStorage holds under a key: nothing, the text that
\* JSON.stringify made of a value (kept as the value), or a text that some
\* other writer left there.
NotStored == [stored |-> FALSE]

Stringified(val) == [stored |-> TRUE, val |-> val]

RawText(raw) == [stored |-> TRUE, raw |-> raw]

\* the empty text
EmptyText == [stored |-> TRUE, empty |-> TRUE]

\* the outcome of an expression that may throw
Throw == [threw |-> TRUE]

Return(v) == [threw |-> FALSE, val |-> v]

\* localStorage.getItem
getItem(store, key) ==
  IF storage = "denied" THEN Throw ELSE Return(store[key])

\* JSON.parse of a stored text: only what JSON.stringify wrote parses
JSONparse(cell) ==
  IF "val" \in DOMAIN cell THEN Return(cell.val) ELSE Throw

\* the try block of loadLS: val ? JSON.parse(val) : fallback
loadLSTry(store, key, fallback) ==
  LET got == getItem(store, key)
  IN IF got.threw THEN Throw
     ELSE IF ~got.val.stored THEN Return(fallback)
     ELSE IF got.val = EmptyText THEN Return(fallback)
     ELSE JSONparse(got.val)

loadLSTrusting(store, key, fallback) ==
  LET cell == store[key]
  IN IF ~cell.stored \/ cell = EmptyText THEN fallback
     ELSE IF "val" \in DOMAIN cell THEN cell.val ELSE cell.raw

\* loadLS: the try block, and the fallback when it threw
loadLS(store, key, fallback) ==
  LET tried == loadLSTry(store, key, fallback)
  IN IF tried.threw THEN fallback ELSE tried.val

\* localStorage.setItem throws when the quota is used up or the storage is
\* denied
setItemThrows == storage # "ok"

saveLSHeedless(store, key, val) == [store EXCEPT ![key] = Stringified(val)]

saveLSLost(store, key, val) == store

\* saveLS: the write, dropped without a trace when setItem throws
saveLS(store, key, val) ==
  IF setItemThrows THEN store ELSE [store EXCEPT ![key] = Stringified(val)]

\* ------------------------------------------------------------ search index
\* new Fuse(posts, {keys: ['title','tags','body'], threshold: 0.33})
NewFuse(docs) == [docs |-> docs, keys |-> <<"title", "tags", "body">>]

Contains(hay, needle) ==
  \E i \in 0..(Len(hay) - Len(needle)) : SubSeq(hay, i + 1, i + Len(needle)) = needle

\* The matching of the fuse.js library, reduced to its exact part: a document
\* matches when the pattern occurs, letter case ignored, in one of the keys.
\* An empty pattern matches nothing.
FuseMatches(doc, pattern) ==
  LET q == ToLowerCase(pattern)
  IN \/ Contains(ToLowerCase(doc.title), q)
     \/ \E i \in DOMAIN doc.tags : Contains(ToLowerCase(doc.tags[i]), q)
     \/ Contains(ToLowerCase(doc.body), q)

FuseSearch(index, pattern) ==
  LET Hit(doc) == FuseMatches(doc, pattern)
  IN IF pattern = <<>> THEN <<>> ELSE SelectSeq(index.docs, Hit)

fuseMemoOnce(newPosts) == fuse

\* useMemo(() => new Fuse(posts, ...), [posts])
fuseMemo(newPosts) == IF newPosts # posts THEN NewFuse(newPosts) ELSE fuse

FilteredAlwaysSearching(q, index, ps) == FuseSearch(index, q)

\* the body of the filtered memo
Filtered(q, index, ps) == IF q = <<>> THEN ps ELSE FuseSearch(index, q)

\* useMemo(..., [query, fuse, posts])
filteredMemo(newQuery, newFuse, newPosts) ==
  IF newQuery # query \/ newFuse # fuse \/ newPosts # posts
    THEN Filtered(newQuery, newFuse, newPosts)
    ELSE filtered

\* the render that follows a handler: both memos are brought up to date
Render(newPosts, newQuery) ==
  /\ fuse' = fuseMemo(newPosts)
  /\ filtered' = filteredMemo(newQuery, fuse', newPosts)

\* ------------------------------------------------------------------- init
EmptyForm ==
  [ name |-> "", email |-> "", affiliation |-> "", title |-> <<>>, tags |-> <<>>,
    cover |-> "", summary |-> "", body |-> <<>>, agree |-> FALSE ]

NoLikes == <<>>

Ran(op, id, slug, note) == [op |-> op, id |-> id, slug |-> slug, note |-> note]

EmptyStore == [k \in StorageKeys |-> NotStored]

\* The state after the first render of a session that finds `store` in
\* localStorage and the clock at t: every useState initializer has loaded
\* its key or taken its fallback, both memos are computed, Contribute is not
\* mounted, and the persistence effects have written the loaded values back.
InitFrom(store, t) ==
  /\ posts = loadLS(store, "aw:posts", samplePosts)
  /\ bookmarks = loadLS(store, "aw:bookmarks", <<>>)
  /\ likes = loadLS(store, "aw:likes", NoLikes)
  /\ submissions = loadLS(store, "aw:submissions", <<>>)
  /\ query = <<>>
  /\ fuse = NewFuse(posts)
  /\ filtered = Filtered(query, fuse, posts)
  /\ page = "home"
  /\ activePost = <<>>
  /\ form = EmptyForm
  /\ token = ""
  /\ now = t
  /\ ls = saveLS(saveLS(saveLS(saveLS(store, "aw:bookmarks", bookmarks),
                               "aw:likes", likes),
                        "aw:posts", posts),
                 "aw:submissions", submissions)
  /\ submitted = 0
  /\ resolved = {}
  /\ toggled = <<>>
  /\ last = Ran("init", -1, <<>>, "")

\* no article is open: ArticleView and its Comments are not mounted
NoArticle ==
  /\ toc = <<>>
  /\ shown = NotShown
  /\ items = <<>>
  /\ name = <<>>
  /\ text = <<>>

\* a first visit: nothing is stored
Init ==
  /\ storage = "ok"
  /\ lsComments = {}
  /\ InitFrom(EmptyStore, 0)
  /\ NoArticle

\* ---------------------------------------------------------------- reading
\* the posts whose cards are on screen
ShownPosts ==
  CASE page = "home" -> Range(posts)
    [] page = "blog" -> Range(filtered)
    [] page = "article" -> Range(activePost)
    [] OTHER -> {}

toggleBookmarkAlwaysAdding(bm, slug) == bm \o <<slug>>

\* the state updater of toggleBookmark
toggleBookmarkUpdate(bm, slug) ==
  LET Other(s) == s # slug
  IN IF slug \in Range(bm) THEN SelectSeq(bm, Other) ELSE bm \o <<slug>>

toggleBookmark(slug) ==
  /\ \E p \in ShownPosts : p.slug = slug
  /\ slug \in Range(bookmarks) \/ Len(bookmarks) < MaxBookmarks
  /\ bookmarks' = toggleBookmarkUpdate(bookmarks, slug)
  /\ ls' = saveLS(ls, "aw:bookmarks", bookmarks')
  /\ toggled' = (IF Len(toggled) < 2 THEN toggled ELSE Tail(toggled))
                   \o <<[slug |-> slug, before |-> bookmarks]>>
  /\ last' = Ran("toggleBookmark", -1, slug, "")
  /\ UNCHANGED <<submitted, resolved>>
  /\ UNCHANGED <<lsComments, storage, toc, shown, items, name, text>>
  /\ UNCHANGED <<posts, likes, submissions, query, fuse, filtered, page,
                 activePost, form, token, now>>

\* prev[slug] || 0, for the object kept as its entries in insertion order
likesOf(prev, slug) ==
  IF \E i \in DOMAIN prev : prev[i].slug = slug
    THEN prev[CHOOSE i \in DOMAIN prev : prev[i].slug = slug].n
    ELSE 0

clapUpdateForgetful(prev, slug) == <<[slug |-> slug, n |-> likesOf(prev, slug) + 1]>>

\* the state updater of clap: ({ ...prev, [slug]: (prev[slug] || 0) + 1 })
clapUpdate(prev, slug) ==
  IF \E i \in DOMAIN prev : prev[i].slug = slug
    THEN [i \in DOMAIN prev |->
            IF prev[i].slug = slug THEN [slug |-> slug, n |-> prev[i].n + 1] ELSE prev[i]]
    ELSE prev \o <<[slug |-> slug, n |-> likesOf(prev, slug) + 1]>>

clap(slug) ==
  /\ page = "article"
  /\ activePost # <<>>
  /\ slug = activePost[1].slug
  /\ likesOf(likes, slug) < MaxLikes
  /\ likes' = clapUpdate(likes, slug)
  /\ ls' = saveLS(ls, "aw:likes", likes')
  /\ last' = Ran("clap", -1, slug, "")
  /\ toggled' = <<>>
  /\ UNCHANGED <<submitted, resolved>>
  /\ UNCHANGED <<lsComments, storage, toc, shown, items, name, text>>
  /\ UNCHANGED <<posts, bookmarks, submissions, query, fuse, filtered, page,
                 activePost, form, token, now>>

\* the part of localStorage under the key aw:comments:<slug>
commentsEntry(slug) ==
  [k \in {slug} |->
     IF \E e \in lsComments : e.slug = slug
       THEN (CHOOSE e \in lsComments : e.slug = slug).cell
       ELSE NotStored]

\* Comments: useState(() => loadLS(key, []))
loadComments(slug) == loadLS(commentsEntry(slug), slug, <<>>)

\* Comments: useEffect(() => saveLS(key, items), [items])
saveComments(slug, val) ==
  LET cell == saveLS(commentsEntry(slug), slug, val)[slug]
      Others == { e \in lsComments : e.slug # slug }
  IN IF cell.stored THEN Others \cup {[slug |-> slug, cell |-> cell]} ELSE Others

\* Opening a post mounts ArticleView and its Comments: the outline effect
\* scans the body, the comments of the slug are loaded and written back.
openPost(p) ==
  /\ page \in {"home", "blog"}
  /\ p \in ShownPosts
  /\ activePost' = <<p>>
  /\ page' = "article"
  /\ toc' = Toc(p.body)
  /\ shown' = RenderArticle(p)
  /\ items' = loadComments(p.slug)
  /\ name' = <<>>
  /\ text' = <<>>
  /\ lsComments' = saveComments(p.slug, items')
  /\ last' = Ran("ui", -1, <<>>, "")
  /\ toggled' = <<>>
  /\ UNCHANGED <<submitted, resolved, storage>>
  /\ UNCHANGED <<posts, bookmarks, likes, submissions, query, fuse, filtered,
                 form, token, now, ls>>

\* the search box of the header
setQuery(q) ==
  /\ query' = q
  /\ Render(posts, q)
  /\ last' = Ran("ui", -1, <<>>, "")
  /\ toggled' = <<>>
  /\ UNCHANGED <<submitted, resolved>>
  /\ UNCHANGED <<lsComments, storage, toc, shown, items, name, text>>
  /\ UNCHANGED <<posts, bookmarks, likes, submissions, page, activePost, form,
                 token, now, ls>>

\* Navigation.  Contribute keeps its draft and its token in component state:
\* both are created when the section is entered (the token from storage,
\* followed by the effect that writes it back) and dropped when it is left.
setPage(p) ==
  /\ p \in Pages \ {"article"}
  /\ page' = p
  /\ IF page # "contribute" /\ p = "contribute"
       THEN /\ form' = EmptyForm
            /\ token' = loadLS(ls, "aw:reviewToken", "")
            /\ ls' = saveLS(ls, "aw:reviewToken", token')
       ELSE IF page = "contribute" /\ p # "contribute"
         THEN /\ form' = EmptyForm
              /\ token' = ""
              /\ ls' = ls
         ELSE UNCHANGED <<form, token, ls>>
  /\ IF page = "article"
       THEN /\ toc' = <<>>
            /\ shown' = NotShown
            /\ items' = <<>>
            /\ name' = <<>>
            /\ text' = <<>>
       ELSE UNCHANGED <<toc, shown, items, name, text>>
  /\ last' = Ran("ui", -1, <<>>, "")
  /\ toggled' = <<>>
  /\ UNCHANGED <<submitted, resolved, lsComments, storage>>
  /\ UNCHANGED <<posts, bookmarks, likes, submissions, query, fuse, filtered,
                 activePost, now>>

\* time passes between two handlers
Tick ==
  /\ now < MaxTime
  /\ now' = now + 1
  /\ UNCHANGED <<posts, bookmarks, likes, submissions, query, fuse, filtered,
                 page, activePost, form, token, ls, submitted, resolved, toggled, last>>
  /\ UNCHANGED <<lsComments, storage, toc, shown, items, name, text>>

\* --------------------------------------------------------------- comments
setName(v) ==
  /\ page = "article"
  /\ v \in CommentNames
  /\ v # name
  /\ name' = v
  /\ last' = Ran("ui", -1, <<>>, "")
  /\ toggled' = <<>>
  /\ UNCHANGED <<posts, bookmarks, likes, submissions, query, fuse, filtered,
                 page, activePost, form, token, now, ls, lsComments, storage, toc,
                 shown, items, text, submitted, resolved>>

setText(v) ==
  /\ page = "article"
  /\ v \in CommentTexts
  /\ v # text
  /\ text' = v
  /\ last' = Ran("ui", -1, <<>>, "")
  /\ toggled' = <<>>
  /\ UNCHANGED <<posts, bookmarks, likes, submissions, query, fuse, filtered,
                 page, activePost, form, token, now, ls, lsComments, storage, toc,
                 shown, items, name, submitted, resolved>>

\* the test at the head of add
CommentComplete(n, t) == Trim(n) # <<>> /\ Trim(t) # <<>>

NewComment(n, t, at) == [id |-> at, name |-> Trim(n), text |-> Trim(t), date |-> at]

appendComment(item, prev) == prev \o <<item>>

\* setItems([item, ...items])
prependComment(item, prev) == <<item>> \o prev

\* Comments.add, with the effect that saves the list under the key of the post
add ==
  /\ page = "article"
  /\ activePost # <<>>
  /\ IF ~CommentComplete(name, text)
       THEN /\ last' = Ran("add", -1, activePost[1].slug, "alert:comment")
            /\ UNCHANGED <<items, text, lsComments>>
       ELSE /\ Len(items) < MaxComments
            /\ items' = prependComment(NewComment(name, text, now), items)
            /\ text' = <<>>
            /\ lsComments' = saveComments(activePost[1].slug, items')
            /\ last' = Ran("add", now, activePost[1].slug, "")
  /\ toggled' = <<>>
  /\ UNCHANGED <<posts, bookmarks, likes, submissions, query, fuse, filtered,
                 page, activePost, form, token, now, ls, storage, toc, shown, name,
                 submitted, resolved>>

\* ------------------------------------------------------------- contribute
setFormField(k, v) ==
  /\ page = "contribute"
  /\ k \in DOMAIN FormInputs
  /\ v \in FormInputs[k]
  /\ v # form[k]
  /\ form' = [form EXCEPT ![k] = v]
  /\ last' = Ran("ui", -1, <<>>, "")
  /\ toggled' = <<>>
  /\ UNCHANGED <<submitted, resolved>>
  /\ UNCHANGED <<lsComments, storage, toc, shown, items, name, text>>
  /\ UNCHANGED <<posts, bookmarks, likes, submissions, query, fuse, filtered,
                 page, activePost, token, now, ls>>

setToken(t) ==
  /\ page = "contribute"
  /\ t # token
  /\ token' = t
  /\ ls' = saveLS(ls, "aw:reviewToken", t)
  /\ last' = Ran("ui", -1, <<>>, "")
  /\ toggled' = <<>>
  /\ UNCHANGED <<submitted, resolved>>
  /\ UNCHANGED <<lsComments, storage, toc, shown, items, name, text>>
  /\ UNCHANGED <<posts, bookmarks, likes, submissions, query, fuse, filtered,
                 page, activePost, form, now>>

ReviewToken == "archadmin"

reviewModeAnyToken == token # ""

\* const reviewMode = token === 'archadmin'
reviewMode == token = ReviewToken

\* The review panel lists the pending submissions with their Approve and
\* Reject buttons; it renders them in review mode only.
ReviewPanelShown == page = "contribute" /\ reviewMode

FormCompleteIgnoringAgree(f) ==
  f.name # "" /\ f.email # "" /\ f.title # <<>> /\ f.body # <<>>

\* the test at the head of submit
FormComplete(f) ==
  f.name # "" /\ f.email # "" /\ f.title # <<>> /\ f.body # <<>> /\ f.agree

NewSubmission(f, t) ==
  [ id |-> t, name |-> f.name, email |-> f.email, affiliation |-> f.affiliation,
    title |-> f.title, tags |-> f.tags, cover |-> f.cover, summary |-> f.summary,
    body |-> f.body, agree |-> f.agree, status |-> "pending", date |-> t ]

appendSubmission(prev, sub) == prev \o <<sub>>

\* setSubmissions(prev => [sub, ...prev])
prependSubmission(prev, sub) == <<sub>> \o prev

submit ==
  /\ page = "contribute"
  /\ IF ~FormComplete(form)
       THEN /\ last' = Ran("submit", -1, <<>>, "alert:required")
            /\ UNCHANGED <<submissions, form, ls, submitted>>
       ELSE /\ submitted < MaxSubmits
            /\ submitted' = submitted + 1
            /\ submissions' = prependSubmission(submissions, NewSubmission(form, now))
            /\ form' = EmptyForm
            /\ ls' = saveLS(ls, "aw:submissions", submissions')
            /\ last' = Ran("submit", now, <<>>, "alert:thanks")
  /\ toggled' = <<>>
  /\ UNCHANGED resolved
  /\ UNCHANGED <<lsComments, storage, toc, shown, items, name, text>>
  /\ UNCHANGED <<posts, bookmarks, likes, query, fuse, filtered, page,
                 activePost, token, now>>

SubmissionPrefix == <<"s","u","b","m","i","s","s","i","o","n","-">>

PlaceholderHero == "https://images.unsplash.com/photo-1541417904950-b855846fe074?q=80&w=1600&auto=format&fit=crop"

\* s.tags.split(',')
RECURSIVE SplitComma(_)
SplitComma(str) ==
  IF \E i \in DOMAIN str : str[i] = ","
    THEN LET i == CHOOSE j \in DOMAIN str : str[j] = "," /\ \A h \in 1..(j - 1) : str[h] # ","
         IN <<SubSeq(str, 1, i - 1)>> \o SplitComma(SubSeq(str, i + 1, Len(str)))
    ELSE <<str>>

\* s.tags ? s.tags.split(',').map(t => t.trim()).filter(Boolean) : []
parseTags(raw) ==
  LET parts == SplitComma(raw)
      trimmed == [i \in DOMAIN parts |-> Trim(parts[i])]
      NonEmpty(t) == t # <<>>
  IN IF raw = <<>> THEN <<>> ELSE SelectSeq(trimmed, NonEmpty)

\* new Date().toISOString().slice(0, 10), as a day number
ISODay(t) == t \div 86400000

DerivedSlugNoFallback(s) == slugify(s.title)

\* slugify(s.title) || ('submission-' + s.id)
DerivedSlug(s) ==
  IF slugify(s.title) # <<>> THEN slugify(s.title) ELSE SubmissionPrefix \o Digits(s.id)

PostOf(s, t) ==
  [ slug |-> DerivedSlug(s),
    title |-> s.title,
    author |-> s.name,
    date |-> ISODay(t),
    hero |-> IF s.cover # "" THEN s.cover ELSE PlaceholderHero,
    tags |-> parseTags(s.tags),
    minutes |-> estimateMinutes(s.body),
    body |-> <<"#", " ">> \o s.title \o <<"\n", "\n">> \o s.body ]

WithoutOthers(prev, id) ==
  LET Keep(x) == x.id = id
  IN SelectSeq(prev, Keep)

\* prev.filter(x => x.id !== s.id)
WithoutId(prev, id) ==
  LET Keep(x) == x.id # id
  IN SelectSeq(prev, Keep)

\* addPost: setPosts(prev => [p, ...prev])
addPost(prev, p) == <<p>> \o prev

approve(i) ==
  /\ ReviewPanelShown
  /\ i \in DOMAIN submissions
  /\ LET s == submissions[i]
     IN /\ posts' = addPost(posts, PostOf(s, now))
        /\ submissions' = WithoutId(submissions, s.id)
        /\ resolved' = resolved \cup {s.id}
        /\ last' = Ran("approve", s.id, DerivedSlug(s), "")
  /\ page' = "blog"
  /\ form' = EmptyForm
  /\ token' = ""
  /\ Render(posts', query)
  /\ ls' = saveLS(saveLS(ls, "aw:posts", posts'), "aw:submissions", submissions')
  /\ toggled' = <<>>
  /\ UNCHANGED <<bookmarks, likes, query, activePost, now, submitted>>
  /\ UNCHANGED <<lsComments, storage, toc, shown, items, name, text>>

reject(i, confirmed) ==
  /\ ReviewPanelShown
  /\ i \in DOMAIN submissions
  /\ LET s == submissions[i]
     IN IF ~confirmed
          THEN /\ last' = Ran("reject", s.id, <<>>, "confirm:no")
               /\ UNCHANGED <<submissions, ls, resolved>>
          ELSE /\ submissions' = WithoutId(submissions, s.id)
               /\ ls' = saveLS(ls, "aw:submissions", submissions')
               /\ resolved' = resolved \cup {s.id}
               /\ last' = Ran("reject", s.id, <<>>, "confirm:yes")
  /\ toggled' = <<>>
  /\ UNCHANGED <<posts, bookmarks, likes, query, fuse, filtered, page,
                 activePost, form, token, now, submitted>>
  /\ UNCHANGED <<lsComments, storage, toc, shown, items, name, text>>

\* ---------------------------------------------------------------- session
\* The page is loaded again: the in-memory state is gone and every useState
\* initializer loads its key from what localStorage holds now, as at the
\* start of a session.
Restart ==
  /\ posts' = loadLS(ls, "aw:posts", samplePosts)
  /\ bookmarks' = loadLS(ls, "aw:bookmarks", <<>>)
  /\ likes' = loadLS(ls, "aw:likes", NoLikes)
  /\ submissions' = loadLS(ls, "aw:submissions", <<>>)
  /\ query' = <<>>
  /\ fuse' = NewFuse(posts')
  /\ filtered' = Filtered(query', fuse', posts')
  /\ page' = "home"
  /\ activePost' = <<>>
  /\ form' = EmptyForm
  /\ token' = ""
  /\ ls' = saveLS(saveLS(saveLS(saveLS(ls, "aw:bookmarks", bookmarks'),
                                "aw:likes", likes'),
                         "aw:posts", posts'),
                  "aw:submissions", submissions')
  /\ toc' = <<>>
  /\ shown' = NotShown
  /\ items' = <<>>
  /\ name' = <<>>
  /\ text' = <<>>
  /\ toggled' = <<>>
  /\ last' = Ran("init", -1, <<>>, "")
  /\ UNCHANGED <<now, lsComments, storage, submitted, resolved>>

StorageModes == {"ok", "full", "denied"}

\* the browser's storage changes its condition: the quota runs out, the user
\* blocks site data, or either is undone
StorageTurns(mode) ==
  /\ mode \in StorageModes
  /\ mode # storage
  /\ storage' = mode
  /\ UNCHANGED <<posts, bookmarks, likes, submissions, query, fuse, filtered,
                 page, activePost, form, token, now, ls, lsComments, toc, shown,
                 items, name, text, submitted, resolved, toggled, last>>

\* a text that is not JSON, as a string or as characters like the value it
\* displaces
Garbage(key) == IF key = "aw:reviewToken" THEN "{oops" ELSE <<"{">>

\* what another writer (another tab, a browser extension, the user in the
\* developer tools) can leave under a key
ForeignCells(key) == {NotStored, EmptyText, RawText(Garbage(key))}

OtherWriter(key, cell) ==
  /\ key \in StorageKeys
  /\ cell \in ForeignCells(key)
  /\ cell # ls[key]
  /\ ls' = [ls EXCEPT ![key] = cell]
  /\ UNCHANGED <<posts, bookmarks, likes, submissions, query, fuse, filtered,
                 page, activePost, form, token, now, lsComments, storage, toc,
                 shown, items, name, text, submitted, resolved, toggled, last>>

\* ---------------------------------------------------------- specification
\* the contribution and review workflow, from a first visit
Next ==
  \/ \E p \in {"contribute", "about"} : setPage(p)
  \/ \E k \in DOMAIN FormInputs : \E v \in FormInputs[k] : setFormField(k, v)
  \/ setToken(ReviewToken)
  \/ submit
  \/ \E i \in DOMAIN submissions : approve(i)
  \/ \E i \in DOMAIN submissions : \E c \in BOOLEAN : reject(i, c)
  \/ Tick

Spec == Init /\ [][Next]_vars

\* drafting and submitting only
NextDraft ==
  \/ \E p \in {"contribute", "about"} : setPage(p)
  \/ \E k \in DOMAIN FormInputs : \E v \in FormInputs[k] : setFormField(k, v)
  \/ submit
  \/ Tick

SpecDraft == Init /\ [][NextDraft]_vars

\* A later session of a site that has two submissions waiting: the store is
\* the one an earlier session left, with any credential or none.
DraftOf(title) ==
  [EmptyForm EXCEPT !.name = "Asha", !.email = "asha@example.org",
                    !.title = title, !.body = BodyText, !.agree = TRUE]

SavedPending ==
  <<NewSubmission(DraftOf(TitleDigital), 1), NewSubmission(DraftOf(TitleBang), 0)>>

ReturningStores ==
  { [k \in StorageKeys |->
       CASE k = "aw:submissions" -> [stored |-> TRUE, val |-> SavedPending]
         [] k = "aw:reviewToken" -> cred
         [] k = "aw:posts" -> [stored |-> TRUE, val |-> samplePosts]
         [] k = "aw:bookmarks" -> [stored |-> TRUE, val |-> <<>>]
         [] OTHER -> [stored |-> TRUE, val |-> NoLikes]]
    : cred \in {NotStored} \cup { [stored |-> TRUE, val |-> t] : t \in Tokens } }

InitReturning ==
  /\ storage = "ok"
  /\ lsComments = {}
  /\ \E store \in ReturningStores : InitFrom(store, 1)
  /\ NoArticle

\* reviewing and searching in a later session
NextReview ==
  \/ \E p \in {"contribute", "blog"} : setPage(p)
  \/ \E q \in Queries : setQuery(q)
  \/ \E t \in Tokens : setToken(t)
  \/ \E i \in DOMAIN submissions : approve(i)
  \/ \E i \in DOMAIN submissions : \E c \in BOOLEAN : reject(i, c)

SpecReview == InitReturning /\ [][NextReview]_vars

\* reading: browsing, bookmarking and applauding the seed corpus; the reader
\* bookmarks any post and opens the two newest
NextReader ==
  \/ \E p \in {"home", "blog"} : setPage(p)
  \/ \E p \in ShownPosts \ {SeedDigital} : openPost(p)
  \/ \E p \in ShownPosts : toggleBookmark(p.slug)
  \/ \E p \in ShownPosts : clap(p.slug)

SpecReader == Init /\ [][NextReader]_vars

\* commenting on the two newest posts
NextComments ==
  \/ setPage("home")
  \/ \E p \in ShownPosts \ {SeedDigital} : openPost(p)
  \/ \E v \in CommentNames : setName(v)
  \/ \E v \in CommentTexts : setText(v)
  \/ add
  \/ Tick

SpecComments == Init /\ [][NextComments]_vars

\* A whole session of an editor who also reads: one submission is waiting
\* and the credential is stored.  The editor opens the first seed post, bookmarks
\* and applauds it, comments on it, fills the form from top to bottom,
\* submits, approves, rejects, and reloads the page.
EditorStore ==
  [k \in StorageKeys |->
     CASE k = "aw:submissions" -> Stringified(<<NewSubmission(DraftOf(TitleBang), 0)>>)
       [] k = "aw:reviewToken" -> Stringified(ReviewToken)
       [] k = "aw:posts" -> Stringified(samplePosts)
       [] k = "aw:bookmarks" -> Stringified(<<>>)
       [] OTHER -> Stringified(NoLikes)]

InitSession ==
  /\ storage = "ok"
  /\ lsComments = {}
  /\ InitFrom(EditorStore, 1)
  /\ NoArticle

Filled == DraftOf(TitleDigital)

\* the required fields in the order of the form
RequiredFields == <<"name", "email", "title", "body", "agree">>

\* the first required field that is still not filled in
NextField ==
  { RequiredFields[i] : i \in { j \in DOMAIN RequiredFields :
        /\ form[RequiredFields[j]] # Filled[RequiredFields[j]]
        /\ \A h \in 1..(j - 1) : form[RequiredFields[h]] = Filled[RequiredFields[h]] } }

NextSession ==
  \/ \E p \in {"home", "contribute"} : setPage(p)
  \/ page = "home" /\ openPost(SeedPottery)
  \/ page = "article" /\ toggleBookmark(activePost[1].slug)
  \/ page = "article" /\ clap(activePost[1].slug)
  \/ setName(NameAsha)
  \/ setText(TextNice)
  \/ add
  \/ \E k \in NextField : setFormField(k, Filled[k])
  \/ submit
  \/ \E i \in DOMAIN submissions : approve(i)
  \/ \E i \in DOMAIN submissions : reject(i, TRUE)
  \/ Restart

SpecSession == InitSession /\ [][NextSession]_vars

\* The same session on a storage that fails from the start: full (reads
\* work, writes throw) or denied (both throw, so the editor has to type the
\* credential and nothing is waiting).
InitOutage ==
  /\ storage \in StorageModes \ {"ok"}
  /\ lsComments = {}
  /\ InitFrom(EditorStore, 1)
  /\ NoArticle

NextOutage ==
  \/ \E p \in {"home", "contribute"} : setPage(p)
  \/ page = "home" /\ openPost(SeedPottery)
  \/ page = "article" /\ toggleBookmark(activePost[1].slug)
  \/ page = "article" /\ clap(activePost[1].slug)
  \/ setName(NameAsha)
  \/ setText(TextNice)
  \/ add
  \/ setToken(ReviewToken)
  \/ \E k \in NextField : setFormField(k, Filled[k])
  \/ submit
  \/ \E i \in DOMAIN submissions : approve(i)
  \/ \E i \in DOMAIN submissions : reject(i, TRUE)

SpecOutage == InitOutage /\ [][NextOutage]_vars

\* Approval of one waiting submission whose title and id are drawn: the
\* editor, whose credential is stored, opens Contribute, approves or rejects,
\* and reads the new post.
ApproveStore(title, id) ==
  [EditorStore EXCEPT !["aw:submissions"] = Stringified(<<NewSubmission(DraftOf(title), id)>>)]

InitApprove ==
  /\ storage = "ok"
  /\ lsComments = {}
  /\ \E title \in DrawnTitles : \E id \in SubmissionIds :
       InitFrom(ApproveStore(title, id), id)
  /\ NoArticle

NextApprove ==
  \/ setPage("contribute")
  \/ \E i \in DOMAIN submissions : approve(i)
  \/ \E i \in DOMAIN submissions : reject(i, TRUE)
  \/ page = "blog" /\ openPost(posts[1])

SpecApprove == InitApprove /\ [][NextApprove]_vars

\* reading the store in every condition: the reader bookmarks the newest
\* post, the editor types a credential, and the store is damaged or denied
\* between two sessions or two visits of Contribute
NextStorage ==
  \/ \E p \in {"home", "contribute"} : setPage(p)
  \/ setToken("guest")
  \/ page = "home" /\ toggleBookmark(posts[1].slug)
  \/ \E k \in {"aw:reviewToken", "aw:bookmarks", "aw:posts"} :
       \E cell \in ForeignCells(k) : OtherWriter(k, cell)
  \/ \E mode \in StorageModes : StorageTurns(mode)
  \/ Restart

SpecStorage == Init /\ [][NextStorage]_vars

\* ----------------------------------------------------- reading one article
\* A returning visitor whose stored corpus is one post with a drawn body and
\* no minutes of its own, opened from the home page and left again.
MaxBodyLen == 3
MaxLines == 2

\* n words separated by single blanks
Words(n) == [i \in 1..(2 * n - 1) |-> IF i % 2 = 1 THEN "a" ELSE " "]

\* bodies on both sides of the places where the minutes change
LongBodies ==
  { Words(n) : n \in {549, 550, 769, 770, 990} }
    \cup { Words(769) \o <<"\n">>, <<" ">> \o Words(769), <<"\n">> \o Words(768) \o <<" ", "\t">> }

Bodies == BoundedStrings({"a", " ", "\n"}, MaxBodyLen) \cup LongBodies

LineFormFunction == <<"#","#"," ","F","o","r","m"," ","&"," ","f","u","n","c","t","i","o","n">>
LineEmphasis == <<"#","#"," ","*","F","o","r","m","*"," ","&"," ","f","u","n","c","t","i","o","n">>
LineCode == <<"#","#","#"," ",Backtick,"k","i","l","n",Backtick," ","s","i","t","e","s">>
LineTop == <<"#"," ","P","o","t","s">>
LineSix == <<"#","#","#","#","#","#","\t","D","e","e","p">>
LineSeven == <<"#","#","#","#","#","#","#"," ","T","o","o">>
LineNoSpace == <<"#","P","o","t","s">>
LineIndented == <<" ","#"," ","P","o","t","s">>
LineBlanks == <<"#"," "," ">>
LinePlain == <<"P","o","t","s"," ","#"," ","1">>

Lines ==
  { LineFormFunction, LineEmphasis, LineCode, LineTop, LineSix, LineSeven,
    LineNoSpace, LineIndented, LineBlanks, LinePlain, <<>> }

RECURSIVE JoinLines(_)
JoinLines(lines) ==
  IF lines = <<>> THEN <<>>
  ELSE IF Len(lines) = 1 THEN lines[1]
  ELSE lines[1] \o <<"\n">> \o JoinLines(Tail(lines))

HeadingDocs == { JoinLines(lines) : lines \in UNION { [1..k -> Lines] : k \in 1..MaxLines } }

ProseSherds == <<"s","h","e","r","d","s">>
ProseSherdsCaps == <<"T","h","e"," ","S","H","E","R","D","S"," ","l","a","y"," ","d","e","e","p">>
ProseTypological == <<"a"," ","T","y","p","o","l","o","g","i","c","a","l"," ","s","t","u","d","y">>
ProseChronology == <<"c","h","r","o","n","o","l","o","g","y">>
ProseChronologies == <<"t","w","o"," ","c","h","r","o","n","o","l","o","g","i","e","s">>
ProseChronologie == <<"c","h","r","o","n","o","l","o","g","i","e">>
ProseBoth == <<"s","h","e","r","d","s"," ","a","n","d"," ","t","y","p","o","l","o","g","i","c","a","l">>
ProseNone == <<"p","o","t","s">>

ProseDocs ==
  { ProseSherds, ProseSherdsCaps, ProseTypological, ProseChronology,
    ProseChronologies, ProseChronologie, ProseBoth, ProseNone,
    <<"#","#"," ">> \o ProseSherds, ProseNone \o <<"\n">> \o ProseSherdsCaps }

DrawnDocs == Bodies \cup HeadingDocs \cup ProseDocs

DrawnPost(doc) ==
  [ slug |-> <<"d","r","a","w","n">>, title |-> <<"D","r","a","w","n">>,
    author |-> "Asha", date |-> 0, hero |-> PlaceholderHero, tags |-> <<>>,
    minutes |-> 0, body |-> doc ]

ArticleStore(doc) ==
  [k \in StorageKeys |->
     IF k = "aw:posts" THEN Stringified(<<DrawnPost(doc)>>) ELSE NotStored]

InitArticle ==
  /\ storage = "ok"
  /\ lsComments = {}
  /\ \E doc \in DrawnDocs : InitFrom(ArticleStore(doc), 0)
  /\ NoArticle

NextArticle ==
  \/ \E target \in {"home", "blog"} : setPage(target)
  \/ page \in {"home", "blog"} /\ openPost(posts[1])

SpecArticle == InitArticle /\ [][NextArticle]_vars

\* ------------------------------------------------------------------ claims
PendingIds == { submissions[i].id : i \in DOMAIN submissions }

PostsWithSlug(slug) == { i \in DOMAIN posts : posts[i].slug = slug }

\* C1: in every reachable state no two Posts of the corpus share a slug.
C1_SlugsUnique ==
  \A i, j \in DOMAIN posts : i # j => posts[i].slug # posts[j].slug

\* C2: right after approve(s) the id of s is not pending and exactly one Post
\* of the corpus carries the slug derived from s.
C2_ApprovedOnce ==
  last.op = "approve" =>
    /\ last.id \notin PendingIds
    /\ Cardinality(PostsWithSlug(last.slug)) = 1

\* C3: a submit with name, email, title or body empty, or without the
\* agreement, leaves the pending list, the corpus and the draft as they were
\* and tells the user.
C3_InvalidSubmitInert ==
  [][ ( /\ submit
        /\ \/ form.name = ""
           \/ form.email = ""
           \/ form.title = <<>>
           \/ form.body = <<>>
           \/ form.agree = FALSE )
      => /\ submissions' = submissions
         /\ posts' = posts
         /\ form' = form
         /\ last'.note = "alert:required" ]_vars

\* a submit refused only because the agreement box is not ticked
C3_Witness ==
  /\ last.op = "submit"
  /\ last.note = "alert:required"
  /\ form.name # "" /\ form.email # "" /\ form.title # <<>> /\ form.body # <<>>
  /\ ~form.agree

\* C4: a submit with every required field filled and the agreement given puts
\* one pending Submission, with id the current timestamp, at the head of the
\* list, keeps the earlier ones behind it in order, empties the draft and
\* leaves the corpus alone.
C4_ValidSubmitQueues ==
  [][ ( /\ submit
        /\ form.name # "" /\ form.email # "" /\ form.title # <<>>
        /\ form.body # <<>> /\ form.agree = TRUE )
      => /\ Len(submissions') = Len(submissions) + 1
         /\ Head(submissions').status = "pending"
         /\ Head(submissions').id = now
         /\ Head(submissions').title = form.title
         /\ Tail(submissions') = submissions
         /\ form'.name = "" /\ form'.email = "" /\ form'.affiliation = ""
         /\ form'.title = <<>> /\ form'.tags = <<>> /\ form'.cover = ""
         /\ form'.summary = "" /\ form'.body = <<>> /\ form'.agree = FALSE
         /\ posts' = posts ]_vars

\* a second submission was queued in front of an earlier one
C4_Witness ==
  /\ last.op = "submit"
  /\ last.note = "alert:thanks"
  /\ Len(submissions) = 2
  /\ submissions[1].id = last.id
  /\ submissions[1].title # submissions[2].title

\* C5: a confirmed reject removes the submission from the pending list and
\* adds no Post; a declined reject changes neither the list nor the corpus.
C5_RejectFrame ==
  [][ \A i \in DOMAIN submissions : \A c \in BOOLEAN :
        reject(i, c) =>
          /\ posts' = posts
          /\ IF c
               THEN /\ submissions[i] \notin Range(submissions')
                    /\ Len(submissions') < Len(submissions)
                    /\ Range(submissions') \subseteq Range(submissions)
               ELSE submissions' = submissions ]_vars

\* one of two pending submissions was rejected, the other is still queued
C5_Witness ==
  /\ last.op = "reject"
  /\ last.note = "confirm:yes"
  /\ Len(submissions) = 1
  /\ last.id \notin PendingIds

\* C6: a submission id that approve or reject has removed is never pending
\* again, and the corpus only grows: every step keeps the Posts it had, in
\* order, behind whatever it adds.
C6_Absorbing ==
  [][ /\ \A id \in resolved' : id \notin { submissions'[i].id : i \in DOMAIN submissions' }
      /\ Len(posts') >= Len(posts)
      /\ SubSeq(posts', Len(posts') - Len(posts) + 1, Len(posts')) = posts ]_vars

\* C7: while the credential differs from the review token (or is absent, the
\* empty string), no step publishes a Post or removes a pending submission.
C7_GateClosed ==
  [][ token # "archadmin"
      => /\ posts' = posts
         /\ \A i \in DOMAIN submissions : submissions[i] \in Range(submissions') ]_vars

\* the editorial review page is open with a wrong credential and a full queue
C7_Witness ==
  /\ page = "contribute"
  /\ token = "guest"
  /\ ls["aw:reviewToken"] = [stored |-> TRUE, val |-> "guest"]
  /\ Len(submissions) = 2
  /\ posts = samplePosts

\* C8: the index is built from the current corpus in every state, and the
\* answer to a non-empty query holds every Post of the corpus that matches.
C8_IndexFresh ==
  /\ fuse.docs = posts
  /\ query # <<>> =>
       \A i \in DOMAIN posts : FuseMatches(posts[i], query) => posts[i] \in Range(filtered)

\* an approval under a standing query: the new Post is in the answer at once
C8_Witness ==
  /\ last.op = "approve"
  /\ query = QueryDig
  /\ Len(posts) > Len(samplePosts)
  /\ posts[1].title = TitleDigital
  /\ posts[1] \in Range(filtered)

\* C9: with the empty query the listing is the corpus: the same Posts, none
\* missing and none added.
C9_EmptyQueryAll ==
  query = <<>> =>
    /\ Range(filtered) = Range(posts)
    /\ Len(filtered) = Len(posts)

\* the empty query over a corpus that two approvals have extended
C9_Witness ==
  /\ query = <<>>
  /\ Len(posts) = Len(samplePosts) + 2
  /\ Len(filtered) = Len(posts)

\* C10: two toggleBookmark calls in a row for one slug leave every slug's
\* membership in the bookmark list as it was before the first.
C10_DoubleToggle ==
  (Len(toggled) = 2 /\ toggled[1].slug = toggled[2].slug) =>
    \A s \in { posts[i].slug : i \in DOMAIN posts } \cup Range(bookmarks)
             \cup Range(toggled[1].before) :
      (s \in Range(bookmarks)) <=> (s \in Range(toggled[1].before))

\* a slug added and removed again while another bookmark stays in place
C10_Witness ==
  /\ Len(toggled) = 2
  /\ toggled[1].slug = toggled[2].slug
  /\ toggled[1].before # <<>>
  /\ toggled[1].slug \notin Range(toggled[1].before)
  /\ toggled[1].slug \notin Range(bookmarks)

\* the slugs that have a like count or a Post
LikedSlugs(l) == { l[i].slug : i \in DOMAIN l } \cup { posts[i].slug : i \in DOMAIN posts }

\* C11: every like count is a natural number that no step lowers; clap(slug)
\* raises the count of slug by exactly one (from 0 when it has no entry) and
\* keeps every other count; a step that is not a clap keeps all counts.
C11_LikesMonotonic ==
  [][ /\ \A s \in LikedSlugs(likes) \cup LikedSlugs(likes') :
           /\ likesOf(likes', s) \in Nat
           /\ likesOf(likes', s) >= likesOf(likes, s)
      /\ \A s \in LikedSlugs(likes) :
           clap(s) =>
             /\ likesOf(likes', s) = likesOf(likes, s) + 1
             /\ \A o \in (LikedSlugs(likes) \cup LikedSlugs(likes')) \ {s} :
                  likesOf(likes', o) = likesOf(likes, o)
      /\ (~ \E s \in LikedSlugs(likes) : clap(s)) => likes' = likes ]_vars

\* a post applauded a second time while another post keeps its one clap
C11_Witness ==
  /\ last.op = "clap"
  /\ likesOf(likes, last.slug) = 2
  /\ \E i \in DOMAIN likes : likes[i].slug # last.slug /\ likes[i].n = 1

\* what get(key, default) has to return: the saved value when one is stored
\* and readable, the default otherwise
Readable(key, default) ==
  IF storage # "denied" /\ ls[key].stored /\ "val" \in DOMAIN ls[key]
    THEN ls[key].val
    ELSE default

\* C12: every load returns the saved value when the key holds one that can be
\* read and parsed, and the default when the key is absent, holds an empty or
\* malformed text, or the storage refuses the read: at the start of a
\* session for the corpus, the bookmarks, the likes and the pending list,
\* and on entering Contribute for the credential.
C12_LoadFallsBack ==
  [][ /\ Restart =>
           /\ posts' = Readable("aw:posts", samplePosts)
           /\ bookmarks' = Readable("aw:bookmarks", <<>>)
           /\ likes' = Readable("aw:likes", NoLikes)
           /\ submissions' = Readable("aw:submissions", <<>>)
      /\ (page # "contribute" /\ page' = "contribute") =>
           token' = Readable("aw:reviewToken", "") ]_vars

\* a session started on a store whose bookmarks are malformed and whose
\* corpus is intact: the bookmarks are the default, the corpus is the saved one
C12_Witness ==
  /\ last.op = "init"
  /\ storage = "full"
  /\ ls["aw:bookmarks"] = RawText(Garbage("aw:bookmarks"))
  /\ bookmarks = <<>>
  /\ ls["aw:posts"] = Stringified(samplePosts)
  /\ posts = samplePosts

Persisted ==
  /\ ls["aw:posts"] = Stringified(posts)
  /\ ls["aw:bookmarks"] = Stringified(bookmarks)
  /\ ls["aw:likes"] = Stringified(likes)
  /\ ls["aw:submissions"] = Stringified(submissions)

\* C14: with a working storage, after every handler the store holds the
\* corpus, the bookmarks, the likes and the pending list as they are in
\* memory, and a session started again at any point loads all four unchanged.
C14_WriteThrough ==
  /\ []Persisted
  /\ [][ Restart =>
           /\ posts' = posts
           /\ bookmarks' = bookmarks
           /\ likes' = likes
           /\ submissions' = submissions ]_vars

\* a session started again after an approval, a bookmark and a clap
C14_Witness ==
  /\ last.op = "init"
  /\ Len(posts) = Len(samplePosts) + 1
  /\ bookmarks # <<>>
  /\ likes # NoLikes
  /\ Persisted

\* the characters of a slug
SlugLetters == Range(LowerSeq) \cup Range(DigitSeq)

\* the letters and digits of a text in lower case, in order
LettersOf(str) ==
  LET IsLetter(c) == c \in SlugLetters
  IN SelectSeq(ToLowerCase(str), IsLetter)

\* C15: the Post made by approve has the slug slugify(title): only lower-case
\* letters, digits and hyphens, the letters and digits of the title in order,
\* no hyphen from white space at either end and one hyphen per run of white
\* space inside; it has "submission-" followed by the id exactly when the
\* title holds no letter, digit or hyphen.  "Pottery 101!" gives
\* "pottery-101" and "!!!" gives "submission-<id>".
C15_DerivedSlug ==
  last.op = "approve" =>
    LET title == posts[1].title
        slug == posts[1].slug
        fallback == SubmissionPrefix \o Digits(last.id)
        bare == \A i \in DOMAIN title : LowerChar(title[i]) \notin SlugLetters \cup {"-"}
    IN /\ slug # <<>>
       /\ bare <=> slugify(title) = <<>>
       /\ bare => slug = fallback
       /\ ~bare =>
            /\ slug = slugify(title)
            /\ \A i \in DOMAIN slug : slug[i] \in SlugLetters \cup {"-"}
            /\ LettersOf(slug) = LettersOf(title)
       /\ title = TitlePottery101 => slug = <<"p","o","t","t","e","r","y","-","1","0","1">>
       /\ title = TitleSpaced => slug = <<"a","-","b">>
       /\ title = TitleBangs => slug = fallback

\* the submission titled "!!!" with a ten-digit id has been approved
C15_Witness ==
  /\ last.op = "approve"
  /\ posts[1].title = TitleBangs
  /\ posts[1].slug = SubmissionPrefix \o <<"1","7","6","2","3","0","0","8","0","0">>
  /\ submissions = <<>>

\* ---------------------------------------------------------------- C16
\* the words of a body, by the position of their first character, and the
\* number of pieces that splitting on runs of white space gives: the words,
\* and an empty piece for white space at the start and for white space at the
\* end; the empty body is one empty piece
WordStarts(b) ==
  { i \in DOMAIN b : ~IsSpace(b[i]) /\ (i = 1 \/ IsSpace(b[i - 1])) }

PieceCount(b) ==
  IF b = <<>> THEN 1
  ELSE Cardinality(WordStarts(b))
         + (IF IsSpace(b[1]) THEN 1 ELSE 0)
         + (IF IsSpace(b[Len(b)]) THEN 1 ELSE 0)

\* C16: for every body the reading time shown for a post that carries none of
\* its own is max(3, round(count / 220)), where count is the number of pieces
\* that splitting the body on runs of white space gives and a half rounds up;
\* it is therefore at least 3, also for an empty body and for a body that
\* starts or ends with white space.
C16_ReadingTime ==
  (page = "article" /\ activePost[1].minutes = 0) =>
    LET b == activePost[1].body
        count == PieceCount(b)
        rounded == CHOOSE m \in 0..count :
                     2 * WordsPerMinute * m - WordsPerMinute <= 2 * count
                       /\ 2 * count < 2 * WordsPerMinute * m + WordsPerMinute
    IN /\ shown.minutes = (IF rounded >= 3 THEN rounded ELSE 3)
       /\ shown.minutes >= 3
       /\ b = <<>> => shown.minutes = 3

\* a body of 769 words and a closing line break is shown: the 770 pieces are
\* where three and a half minutes round up to four
C16_Witness ==
  /\ page = "article"
  /\ activePost[1].minutes = 0
  /\ activePost[1].body = Words(769) \o <<"\n">>
  /\ shown.minutes = 4

\* ---------------------------------------------------------------- C17
\* a heading line: one to six markers, white space, then text
MarkersOf(line) ==
  IF \E k \in 1..MaxHeadingLevel :
       /\ Len(line) >= k + 2
       /\ \A i \in 1..k : line[i] = "#"
       /\ IsSpace(line[k + 1])
    THEN CHOOSE k \in 1..MaxHeadingLevel :
           /\ Len(line) >= k + 2
           /\ \A i \in 1..k : line[i] = "#"
           /\ IsSpace(line[k + 1])
    ELSE 0

IsHeadingLine(line) == MarkersOf(line) > 0

\* what follows the markers and the white space after them
RemainderOf(line) ==
  LET k == MarkersOf(line)
      first == { i \in (k + 1)..Len(line) : ~IsSpace(line[i]) }
  IN IF first = {} THEN <<>>
     ELSE SubSeq(line, CHOOSE i \in first : \A j \in first : i <= j, Len(line))

InlineMarkers == {Backtick, "*", "_"}

\* C17: the outline of the body shown has one entry per heading line, in
\* document order; the level is the number of markers, the text is what
\* follows them without the inline markers of emphasis and code, and the id
\* is slugify(text).  "## Form & function" gives level 2, "Form & function",
\* "form-function", and a heading written twice gives the same entry twice.
C17_Outline ==
  page = "article" =>
    LET heads == SelectSeq(SplitLines(activePost[1].body), IsHeadingLine)
    IN /\ Len(toc) = Len(heads)
       /\ \A i \in DOMAIN heads :
            /\ toc[i].level = MarkersOf(heads[i])
            /\ toc[i].id = slugify(toc[i].text)
            /\ RemainderOf(heads[i]) # <<>> =>
                 /\ toc[i].text = StripEmphasis(RemainderOf(heads[i]))
                 /\ \A j \in DOMAIN toc[i].text : toc[i].text[j] \notin InlineMarkers
            /\ heads[i] = LineFormFunction =>
                 toc[i] = [ level |-> 2,
                            text |-> SubSeq(LineFormFunction, 4, Len(LineFormFunction)),
                            id |-> <<"f","o","r","m","-","f","u","n","c","t","i","o","n">> ]
       /\ \A i, j \in DOMAIN heads : heads[i] = heads[j] => toc[i] = toc[j]

\* ---------------------------------------------------------------- C19
CorpusSlugs == { posts[i].slug : i \in DOMAIN posts }

\* the step is an add: the clock is the only thing that moves without
\* recording what ran
C19_Adds == last'.op = "add" /\ now' = now

\* C19: the comments of a post only grow, at the head.  An add whose name or
\* text is empty after trimming changes nothing; a valid add puts exactly one
\* new Comment, with the trimmed name and text, before the comments that were
\* there, which stay as they were and in their order, no older one ahead of
\* it, and leaves the list stored for every other slug alone.  No other step
\* changes a stored list.
C19_CommentsGrowAtHead ==
  [][ /\ C19_Adds /\ last'.id = -1 =>
           /\ ~CommentComplete(name, text)
           /\ UNCHANGED <<items, name, text, lsComments, posts>>
      /\ C19_Adds /\ last'.id # -1 =>
           /\ Trim(name) # <<>> /\ Trim(text) # <<>>
           /\ Len(items') = Len(items) + 1
           /\ Tail(items') = items
           /\ items'[1].name = Trim(name) /\ items'[1].text = Trim(text)
           /\ \A i \in DOMAIN items' : items'[i].id <= items'[1].id
           /\ loadComments(activePost[1].slug)' = items'
           /\ \A slug \in CorpusSlugs \ {activePost[1].slug} :
                loadComments(slug)' = loadComments(slug)
      /\ ~C19_Adds =>
           \A slug \in CorpusSlugs : loadComments(slug)' = loadComments(slug)
    ]_vars

\* a second comment was added to a post, later than the first, while another
\* post has a comment of its own
C19_Witness ==
  /\ last.op = "add"
  /\ last.id = 1
  /\ Len(items) = 2
  /\ items[1].id = 1 /\ items[2].id = 0
  /\ \E slug \in CorpusSlugs \ {activePost[1].slug} : loadComments(slug) # <<>>

\* ---------------------------------------------------------------- C20
\* the step is an approve or a confirmed reject
C20_Resolves ==
  /\ last'.op \in {"approve", "reject"}
  /\ last'.note # "confirm:no"
  /\ now' = now

\* seq without its k-th element
WithoutIndex(seq, k) == SubSeq(seq, 1, k - 1) \o SubSeq(seq, k + 1, Len(seq))

\* C20: approve and confirmed reject remove exactly one record from the
\* pending list, the one they were given, and leave the others present in
\* their order; the pending submissions have pairwise distinct ids in every
\* reachable state, two submits at the same timestamp included.
C20_RemovesExactlyOne ==
  [][ /\ \A i, j \in DOMAIN submissions' :
           i # j => submissions'[i].id # submissions'[j].id
      /\ C20_Resolves =>
           \E k \in DOMAIN submissions :
             /\ submissions[k].id = last'.id
             /\ submissions' = WithoutIndex(submissions, k)
    ]_vars

\* ---------------------------------------------------------------- C18
SherdsDefinition == (CHOOSE e \in glossary : e.term = TermSherds).definition

\* C18: in the prose of the article shown, every occurrence of "sherds", in
\* any letter case, carries the tooltip with the definition of "sherds", and
\* every piece that the annotation pass matched carries the definition of
\* some glossary entry; what lies between the matched pieces holds no
\* "sherds".
C18_SherdsAnnotated ==
  page = "article" =>
    \A n \in DOMAIN shown.prose :
      LET parts == shown.prose[n]
      IN \A i \in DOMAIN parts :
           /\ ToLowerCase(parts[i].part) = TermSherds =>
                parts[i].title = SherdsDefinition
           /\ i % 2 = 0 =>
                \E e \in glossary : parts[i].title = e.definition
           /\ i % 2 = 1 =>
                ~Contains(ToLowerCase(parts[i].part), TermSherds)

\* ---------------------------------------------------------------- C21
\* C21: every entry of the outline of the article shown links to an anchor
\* that the article has: for each entry, of any level from 1 to 6, the
\* heading element rendered for its line carries an id equal to the id of
\* the entry.
C21_OutlineAnchored ==
  page = "article" =>
    /\ Len(shown.headings) = Len(toc)
    /\ \A i \in DOMAIN toc :
         /\ toc[i].level \in 1..MaxHeadingLevel
         /\ shown.headings[i].level = toc[i].level
         /\ shown.headings[i].anchor = <<toc[i].id>>

====
